---- MODULE Spec2Model ----
(***************************************************************************)
(* Field-collection state machines of the AI recruiter.                    *)
(*                                                                         *)
(* Three chat handlers live in the repository:                             *)
(*   - IntelligentRecruiterChat (in-memory sessions, skip detection,       *)
(*     heuristic auto-fill, webhook)       src/unnamed/part_000:387-1358   *)
(*   - VacancyBuilder (ring search)        src/unnamed/part_000:1-386      *)
(*   - ProgressiveJobCollector (SQLite)    src/server.js                   *)
(*                                                                         *)
(* JavaScript values are modelled as string tokens, so that values of      *)
(* different JavaScript types can be compared with each other:             *)
(*   "undefined", "null", "s:<text>" (string), "n:<digits>" (number),      *)
(*   "b:true"/"b:false", "a:[...]" (array), "obj" (nested object).         *)
(***************************************************************************)
EXTENDS Integers, Sequences, FiniteSets, TLC

Undef == "undefined"
Null == "null"
EmptyStr == "s:"
BlankStr == "s:  "
EmptyArr == "a:[]"
Obj == "obj"

StringToks == {EmptyStr, BlankStr, "s:Frontend developer", "s:Accountant", "s:IT",
               "s:Finance", "s:Fintech", "s:USD", "s:React, Node",
               "s:remote", "s:hybrid", "s:on_site", "s:full-time", "s:part-time",
               "s:Product", "s:Great team", "s:note",
               "s:user_2hm9OQpFfHybPE5X2YAKC10dfJW",
               "s:org_2hm9FHY47aoA4uB6HZVf64dohbO",
               "s:bac58803-ce02-4fcd-abea-7d89652037aa"}
ArrayToks == {EmptyArr, "a:[React]", "a:[react]", "a:[Vue]", "a:[English B2]"}

IsString(v) == v \in StringToks
IsArray(v) == v \in ArrayToks

\* JavaScript truthiness: undefined, null, "", 0 and false are falsy; every
\* array (the empty one included) and every object is truthy.
Truthy(v) == v \notin {Undef, Null, EmptyStr, "n:0", "b:false"}

\* String.prototype.trim() === ''
TrimIsEmpty(v) == v \in {EmptyStr, BlankStr}

\* title.toLowerCase().includes('developer' | 'engineer' | 'frontend' | 'backend')
IsDeveloperTitle(v) == v \in {"s:Frontend developer"}

(***************************************************************************)
(* The vacancy record of IntelligentRecruiterChat.  A record is a function *)
(* from paths to tokens; an absent key holds Undef.  The nested object     *)
(* salaryExpectations is flattened: the path "salaryExpectations" holds    *)
(* Obj, Null or Undef, and its members are paths of their own, which hold  *)
(* Undef whenever the parent is no object.  "notes" stands for a key that  *)
(* is not part of the template.                                            *)
(***************************************************************************)
SalaryKey == "salaryExpectations"
SalaryMembers == {"salaryExpectations.min", "salaryExpectations.max",
                  "salaryExpectations.currency"}
TemplateKeys == {"title", "description", "authorId", "orgId", "hiringCompanyId",
                 "department", "additionalInformation", "locationType", "remote",
                 "aiModel", "companyType", "employmentType", "domain",
                 "isTestsTask", "coreSkills", "secondarySkills",
                 "overallExperiencesFrom", "overallExperiencesTo", "education",
                 "languages", SalaryKey}
UnknownKeys == {"notes"}
TopKeys == TemplateKeys \cup UnknownKeys
Paths == TopKeys \cup SalaryMembers

getVacancyTemplate ==
    [p \in Paths |->
        CASE p \in {"coreSkills", "secondarySkills", "languages"} -> EmptyArr
          [] p = "authorId" -> "s:user_2hm9OQpFfHybPE5X2YAKC10dfJW"
          [] p = "orgId" -> "s:org_2hm9FHY47aoA4uB6HZVf64dohbO"
          [] p = "hiringCompanyId" -> "s:bac58803-ce02-4fcd-abea-7d89652037aa"
          [] p = SalaryKey -> Obj
          [] p = "salaryExpectations.currency" -> "s:USD"
          [] p \in UnknownKeys -> Undef
          [] OTHER -> Null]

\* this.vacancyFields: the type declared for each field.
vacancyFields ==
    [f \in {"title", "description", "department", "additionalInformation",
            "locationType", "remote", "aiModel", "companyType", "employmentType",
            "domain", "isTestsTask", "coreSkills", "secondarySkills",
            "overallExperiencesFrom", "overallExperiencesTo", "education",
            "languages", "salaryExpectations.min", "salaryExpectations.max"} |->
        CASE f \in {"title", "description", "additionalInformation"} -> "string"
          [] f \in {"department", "locationType", "aiModel", "companyType",
                    "employmentType", "domain"} -> "enum"
          [] f \in {"remote", "isTestsTask", "education"} -> "boolean"
          [] f \in {"coreSkills", "secondarySkills", "languages"} -> "array"
          [] OTHER -> "number"]

\* getValueByPath(obj, path): a member of salaryExpectations reads as
\* undefined when the parent is null or absent.
getValueByPath(obj, path) ==
    IF path \in SalaryMembers
    THEN IF obj[SalaryKey] = Obj THEN obj[path] ELSE Undef
    ELSE obj[path]

requiredFields ==
    <<"title", "department", "domain", "coreSkills", "overallExperiencesFrom">>

\* A faulty completeness check: only the title is looked at.  C15 must tell
\* it from isVacancyComplete.
isVacancyCompleteTitleOnly(vacancy) == Truthy(getValueByPath(vacancy, "title"))

\* for (field of requiredFields) if (!value || (isArray && length === 0)) return false
isVacancyComplete(vacancy) ==
    \A i \in 1..Len(requiredFields) :
        LET value == getValueByPath(vacancy, requiredFields[i])
        IN ~(~Truthy(value) \/ value = EmptyArr)

allFields ==
    <<"title", "department", "domain", "coreSkills", "overallExperiencesFrom",
      "salaryExpectations.min", "locationType", "employmentType", "companyType",
      "secondarySkills", "overallExperiencesTo", "languages", "education",
      "isTestsTask", "description">>

\* A faulty test: every falsy value counts as missing.  C29 must tell it
\* from FieldIsMissing.
FieldIsMissingWhenFalsy(vacancy, field) == ~Truthy(getValueByPath(vacancy, field))

\* The test getNextMissingField applies to one field of allFields.
FieldIsMissing(vacancy, field) ==
    LET value == getValueByPath(vacancy, field)
        isEmpty == value = Null \/ value = Undef \/ value = EmptyArr
    IN  IF field \in {"isTestsTask", "education", "remote"}
        THEN value = Null \/ value = Undef
        ELSE IF field \in {"description", "additionalInformation"}
        THEN value = Null \/ value = Undef
        ELSE isEmpty \/ (IsString(value) /\ TrimIsEmpty(value))

NoField == "none"

\* The first field of allFields that is missing, NoField (null) when none is.
getNextMissingField(vacancy) ==
    LET missing == {i \in 1..Len(allFields) : FieldIsMissing(vacancy, allFields[i])}
    IN  IF missing = {} THEN NoField
        ELSE allFields[CHOOSE i \in missing : \A j \in missing : i <= j]


(***************************************************************************)
(* User messages.  The handler inspects a message only through the         *)
(* patterns of applySmartMappings, so a message is the record of what      *)
(* those patterns find in it.                                              *)
(*   truthy  : the request carries a non-empty message                     *)
(*   dollars : <<min, max>> matched by /(\d+)[-\s]*(\d+)?\s*dollars?/, or  *)
(*             <<>>; max is Null when the second group is absent           *)
(*   years   : the number matched by /(\d+)\s*(?:years?|yrs?)/, or Undef   *)
(*   skills  : the array of skillPatterns keys found, EmptyArr when none   *)
(***************************************************************************)
Msg(id, truthy, dollars, words, years, skills) ==
    [id |-> id, truthy |-> truthy, dollars |-> dollars, words |-> words,
     years |-> years, skills |-> skills]

NoMessage == Msg("", FALSE, <<>>, {}, Undef, EmptyArr)
MsgScenarioA == Msg("Frontend developer, React, 3 years", TRUE, <<>>, {}, "n:3", "a:[react]")
MsgThatsAll == Msg("no, that's all", TRUE, <<>>, {}, Undef, EmptyArr)
MsgRemote == Msg("remote, full time, 4000-6000 dollars", TRUE, <<"n:4000", "n:6000">>,
                 {"remote", "full", "time"}, Undef, EmptyArr)
MsgOffice == Msg("office based, 5 years", TRUE, <<>>, {"office"}, "n:5", EmptyArr)
MsgBrief == Msg("an accountant for our fintech product, brief attached", TRUE, <<>>, {},
                Undef, EmptyArr)

Messages == {NoMessage, MsgScenarioA, MsgThatsAll, MsgRemote, MsgOffice, MsgBrief}

(***************************************************************************)
(* Answers of the language model.                                          *)
(***************************************************************************)
\* skip classifier, intent classifier: the text returned, or "throw"
SkipAnswers == {"skip", "fill", "fill, not skip", "throw"}
IntentAnswers == {"yes", "no", "no, not a yes", "throw"}
\* the answers of a classifier that count as failures of the capability: the
\* call throws, or the text is not the one word the prompt asks for
SkipFaults == {"throw", "fill, not skip"}
IntentFaults == {"throw", "no, not a yes"}
\* question phraser and document generator: "ok" or "throw"
CallOutcomes == {"ok", "throw"}
\* webhook: fetch resolves ok, resolves with a non-OK status, or rejects
WebhookOutcomes == {"ok", "notok", "throw"}

\* A parsed extraction answer: the keys it carries, every other path Undef.
Patch(p) == [k \in Paths |-> IF k \in DOMAIN p THEN p[k] ELSE Undef]

\* The keys of p added to the answer q.
With(p, q) == [k \in Paths |-> IF p[k] # Undef THEN p[k] ELSE q[k]]

EmptyPatch == Patch(<<>>)
PatchScenarioA ==
    Patch("title" :> "s:Frontend developer" @@ "coreSkills" :> "a:[React]"
          @@ "overallExperiencesFrom" :> "n:3")
PatchTitleDeptDomain ==
    Patch("title" :> "s:Accountant" @@ "department" :> "s:Finance"
          @@ "domain" :> "s:Fintech")
PatchMandatory ==
    With(Patch("coreSkills" :> "a:[Vue]" @@ "overallExperiencesFrom" :> "n:5"),
         PatchTitleDeptDomain)
PatchMandatoryZero ==
    With(Patch("coreSkills" :> "a:[Vue]" @@ "overallExperiencesFrom" :> "n:0"),
         PatchTitleDeptDomain)
PatchSkillsAsText ==
    With(Patch("coreSkills" :> "s:React, Node" @@ "overallExperiencesFrom" :> "n:5"),
         PatchTitleDeptDomain)
PatchUpToCompany ==
    With(Patch(SalaryKey :> Obj @@ "salaryExpectations.min" :> "n:4000"
          @@ "salaryExpectations.max" :> "n:6000"
          @@ "salaryExpectations.currency" :> "s:USD"
          @@ "coreSkills" :> "a:[Vue]" @@ "overallExperiencesFrom" :> "n:5"
          @@ "locationType" :> "s:hybrid" @@ "employmentType" :> "s:part-time"
          @@ "companyType" :> "s:Product"),
         PatchTitleDeptDomain)
PatchFull ==
    With(Patch("secondarySkills" :> "a:[React]" @@ "overallExperiencesTo" :> "n:5"
          @@ "languages" :> "a:[English B2]" @@ "education" :> "b:false"
          @@ "isTestsTask" :> "b:false" @@ "description" :> "s:Great team"),
         PatchUpToCompany)
PatchZeroYears == Patch("overallExperiencesFrom" :> "n:0")
PatchErasing == Patch("title" :> EmptyStr @@ "coreSkills" :> EmptyArr)
PatchNulls == Patch("title" :> Null @@ "department" :> Null @@ "coreSkills" :> Null)
PatchUnknownKey == Patch("notes" :> "s:note")
PatchSalaryMinOnly == Patch(SalaryKey :> Obj @@ "salaryExpectations.min" :> "n:4000")
PatchRemoteJob ==
    Patch("locationType" :> "s:remote" @@ "remote" :> "b:true"
          @@ "employmentType" :> "s:full-time")

\* The JSON objects the extraction prompt may be answered with for a message.
PatchesFor(msg) ==
    CASE msg = MsgScenarioA -> {PatchScenarioA}
      [] msg = MsgThatsAll -> {EmptyPatch, PatchErasing, PatchNulls, PatchUnknownKey}
      [] msg = MsgBrief -> {PatchTitleDeptDomain, PatchMandatory, PatchMandatoryZero,
                            PatchSkillsAsText, PatchUpToCompany, PatchFull}
      [] msg = MsgRemote -> {PatchSalaryMinOnly, PatchRemoteJob}
      [] msg = MsgOffice -> {PatchZeroYears}
      [] OTHER -> {}

\* What callAPI yields for the extraction prompt: it throws, it returns text
\* JSON.parse rejects, or it returns a JSON object.
Extraction(kind, json) == [kind |-> kind, json |-> json]
ExtractionFaults == {Extraction("throw", EmptyPatch), Extraction("garbage", EmptyPatch)}
ExtractionsFor(msg) ==
    ExtractionFaults \cup {Extraction("json", p) : p \in PatchesFor(msg)}

(***************************************************************************)
(* IntelligentRecruiterChat.checkForSkipResponse                           *)
(***************************************************************************)
SkipDefault(nextField) ==
    IF nextField \in {"isTestsTask", "education", "remote"} THEN "b:false"
    ELSE IF nextField \in {"secondarySkills", "languages"} THEN EmptyArr
    ELSE IF nextField \in SalaryMembers \/ nextField = "overallExperiencesTo" THEN Null
    ELSE EmptyStr

\* response.toLowerCase().trim().includes('skip'): true of every answer text
\* that contains the word, whatever else it says.
IncludesSkip(answer) == answer \in {"skip", "fill, not skip"}

\* A failed call is caught and answered with shouldSkip: false.
checkForSkipResponse(currentVacancy, answer) ==
    LET nextField == getNextMissingField(currentVacancy)
    IN  IF IncludesSkip(answer)
        THEN [shouldSkip |-> TRUE, value |-> SkipDefault(nextField), field |-> nextField]
        ELSE [shouldSkip |-> FALSE, value |-> Undef, field |-> NoField]

\* A faulty skip branch: a nested target replaces the whole nested object by
\* one that holds the target only.  C2 must tell it from ApplySkip.
ApplySkipWholeGroup(currentVacancy, value) ==
    LET nextField == getNextMissingField(currentVacancy)
    IN  IF nextField = NoField THEN currentVacancy
        ELSE IF nextField \in SalaryMembers
        THEN [p \in Paths |->
                IF p = nextField THEN value
                ELSE IF p = SalaryKey THEN Obj
                ELSE IF p \in SalaryMembers THEN Undef
                ELSE currentVacancy[p]]
        ELSE [currentVacancy EXCEPT ![nextField] = value]

\* The skip branch of analyzeMessage: a shallow copy with the next missing
\* field set to the default; a member of salaryExpectations is set inside
\* the nested object, which is created when it is absent.
ApplySkip(currentVacancy, value) ==
    LET nextField == getNextMissingField(currentVacancy)
    IN  IF nextField = NoField THEN currentVacancy
        ELSE IF nextField \in SalaryMembers
        THEN [p \in Paths |->
                IF p = nextField THEN value
                ELSE IF p = SalaryKey THEN Obj
                ELSE IF p \in SalaryMembers /\ currentVacancy[SalaryKey] # Obj THEN Undef
                ELSE currentVacancy[p]]
        ELSE [currentVacancy EXCEPT ![nextField] = value]


(***************************************************************************)
(* IntelligentRecruiterChat.applySmartMappings: mutates the parsed answer  *)
(* in place, one pattern after the other.                                  *)
(***************************************************************************)
\* updatedVacancy.title.toLowerCase() is a TypeError for a truthy title
\* that is no string.
SmartMappingsThrow(updatedVacancy) ==
    Truthy(updatedVacancy["title"]) /\ ~IsString(updatedVacancy["title"])

\* A faulty department mapping: no auto-fill.  C8 must tell it from
\* MapDepartment.
MapDepartmentOff(u, currentVacancy) == u

MapDepartment(u, currentVacancy) ==
    IF Truthy(u["title"]) /\ IsDeveloperTitle(u["title"])
       /\ ~Truthy(currentVacancy["department"])
    THEN [u EXCEPT !["department"] = "s:IT"]
    ELSE u

MapSalary(u, msg, currentVacancy) ==
    IF msg.dollars # <<>>
       /\ ~Truthy(getValueByPath(currentVacancy, "salaryExpectations.min"))
    THEN [u EXCEPT ![SalaryKey] = Obj,
                   !["salaryExpectations.min"] = msg.dollars[1],
                   !["salaryExpectations.max"] = msg.dollars[2],
                   !["salaryExpectations.currency"] = "s:USD"]
    ELSE u

\* The third test is  includes('office') || (includes('on-site') && !locationType).
MapLocation(u, msg, currentVacancy) ==
    IF "remote" \in msg.words /\ ~Truthy(currentVacancy["locationType"])
    THEN [u EXCEPT !["locationType"] = "s:remote", !["remote"] = "b:true"]
    ELSE IF "hybrid" \in msg.words /\ ~Truthy(currentVacancy["locationType"])
    THEN [u EXCEPT !["locationType"] = "s:hybrid"]
    ELSE IF "office" \in msg.words
            \/ ("on-site" \in msg.words /\ ~Truthy(currentVacancy["locationType"]))
    THEN [u EXCEPT !["locationType"] = "s:on_site"]
    ELSE u

MapEmployment(u, msg, currentVacancy) ==
    IF "full" \in msg.words /\ "time" \in msg.words
       /\ ~Truthy(currentVacancy["employmentType"])
    THEN [u EXCEPT !["employmentType"] = "s:full-time"]
    ELSE IF "part" \in msg.words /\ "time" \in msg.words
            /\ ~Truthy(currentVacancy["employmentType"])
    THEN [u EXCEPT !["employmentType"] = "s:part-time"]
    ELSE u

MapExperience(u, msg, currentVacancy) ==
    IF msg.years # Undef /\ ~Truthy(currentVacancy["overallExperiencesFrom"])
    THEN [u EXCEPT !["overallExperiencesFrom"] = msg.years]
    ELSE u

\* !currentVacancy.coreSkills || currentVacancy.coreSkills.length === 0
MapSkills(u, msg, currentVacancy) ==
    IF (~Truthy(currentVacancy["coreSkills"]) \/ currentVacancy["coreSkills"] = EmptyArr)
       /\ msg.skills # EmptyArr
    THEN [u EXCEPT !["coreSkills"] = msg.skills]
    ELSE u

applySmartMappings(updatedVacancy, msg, currentVacancy) ==
    MapSkills(
      MapExperience(
        MapEmployment(
          MapLocation(
            MapSalary(
              MapDepartment(updatedVacancy, currentVacancy),
              msg, currentVacancy),
            msg, currentVacancy),
          msg, currentVacancy),
        msg, currentVacancy),
      msg, currentVacancy)

\* Object.keys(updatedVacancy).forEach(key => if (updatedVacancy[key] !== null
\* && !== undefined) mergedVacancy[key] = updatedVacancy[key]): a shallow
\* merge, so a salaryExpectations object replaces the whole nested object.
MergeVacancy(currentVacancy, updatedVacancy) ==
    [p \in Paths |->
        IF p \in SalaryMembers
        THEN IF updatedVacancy[SalaryKey] = Obj THEN updatedVacancy[p]
             ELSE currentVacancy[p]
        ELSE IF updatedVacancy[p] # Null /\ updatedVacancy[p] # Undef
             THEN updatedVacancy[p]
             ELSE currentVacancy[p]]

(***************************************************************************)
(* IntelligentRecruiterChat.analyzeMessage.  The result names the branch   *)
(* taken (how) and the capabilities called (calls).                        *)
(***************************************************************************)
analyzeMessage(msg, currentVacancy, skipAnswer, extraction) ==
    LET skipResponse == checkForSkipResponse(currentVacancy, skipAnswer)
    IN  IF skipResponse.shouldSkip
        THEN [success |-> TRUE, how |-> "skip", calls |-> {"skip"},
              updatedVacancy |-> ApplySkip(currentVacancy, skipResponse.value)]
        ELSE IF extraction.kind = "throw"
        THEN [success |-> FALSE, how |-> "AI analysis error",
              calls |-> {"skip", "extract"}, updatedVacancy |-> currentVacancy]
        ELSE IF extraction.kind = "garbage" \/ SmartMappingsThrow(extraction.json)
        THEN [success |-> FALSE, how |-> "Data processing error",
              calls |-> {"skip", "extract"}, updatedVacancy |-> currentVacancy]
        ELSE [success |-> TRUE, how |-> "merge", calls |-> {"skip", "extract"},
              updatedVacancy |->
                  MergeVacancy(currentVacancy,
                               applySmartMappings(extraction.json, msg, currentVacancy))]


(***************************************************************************)
(* IntelligentRecruiterChat.generateResponse                               *)
(***************************************************************************)
totalFields == 15

\* Math.round((filledFields / totalFields) * 100)
CompletionPercentage(nextField) ==
    LET filledFields == totalFields - (IF nextField # NoField THEN 1 ELSE 0)
    IN  (filledFields * 200 + totalFields) \div (2 * totalFields)

\* A message text: the kind of sentence, the field it asks about, the
\* document it embeds and the status note appended to it.
Text(kind, field, doc, note) == [kind |-> kind, field |-> field, doc |-> doc, note |-> note]

NotCalled == "n/a"

\* intentResponse.toLowerCase().trim().includes('yes'): true of every answer
\* text that contains the word; a failed call leaves userWantsToGenerate false.
IncludesYes(answer) == answer \in {"yes", "no, not a yes"}

\* The intent classifier is called only when the mandatory fields are
\* complete, the message is non-empty and a field is still missing.
IntentIsAsked(msg, currentVacancy) ==
    isVacancyComplete(currentVacancy) /\ msg.truthy
    /\ getNextMissingField(currentVacancy) # NoField

generateResponse(msg, currentVacancy, intentAnswer, phrasing) ==
    LET nextField == getNextMissingField(currentVacancy)
        completionPercentage == CompletionPercentage(nextField)
        hasMinimumInfo == isVacancyComplete(currentVacancy)
        asked == IntentIsAsked(msg, currentVacancy)
        userWantsToGenerate == asked /\ IncludesYes(intentAnswer)
    IN  IF nextField = NoField
        THEN [message |-> Text("allCollected", NoField, "none", ""),
              isComplete |-> TRUE, completionPercentage |-> 100, calls |-> {}]
        ELSE IF hasMinimumInfo /\ userWantsToGenerate
        THEN [message |-> Text("generateEarly", NoField, "none", ""),
              isComplete |-> TRUE, completionPercentage |-> completionPercentage,
              calls |-> {"intent"}]
        ELSE [message |-> Text(IF phrasing = "ok" THEN "question" ELSE "fallbackQuestion",
                               nextField, "none", ""),
              isComplete |-> FALSE, completionPercentage |-> completionPercentage,
              calls |-> (IF asked THEN {"intent"} ELSE {}) \cup {"phrase"}]

(***************************************************************************)
(* IntelligentRecruiterChat.generateJobDescription and sendToWebhook       *)
(***************************************************************************)
\* The prompt is built outside the try block: coreSkills.join,
\* secondarySkills.join and languages.map are TypeErrors on a truthy value
\* that is no array.
DescriptionPromptThrows(vacancy) ==
    \/ Truthy(vacancy["coreSkills"]) /\ ~IsArray(vacancy["coreSkills"])
    \/ Truthy(vacancy["secondarySkills"]) /\ ~IsArray(vacancy["secondarySkills"])
    \/ IsString(vacancy["languages"]) /\ vacancy["languages"] # EmptyStr

\* "generated": the capability's text; "fallback": the static text of the
\* catch block; "TypeError": the call throws.
generateJobDescription(vacancy, outcome) ==
    IF DescriptionPromptThrows(vacancy) THEN "TypeError"
    ELSE IF outcome = "ok" THEN "generated"
    ELSE "fallback"

\* A faulty webhook call: the status of the answer is not looked at.  C9 must
\* tell it from sendToWebhook.
sendToWebhookIgnoringStatus(outcome) == IF outcome = "throw" THEN "throw" ELSE "data"

\* sendToWebhook throws when fetch rejects or the status is not OK.
sendToWebhook(outcome) == IF outcome = "ok" THEN "data" ELSE "throw"


(***************************************************************************)
(* State of the IntelligentRecruiterChat server.                           *)
(*   sessions : the Map of sessions, keyed by session id                   *)
(*   clock    : Date.now(), the source of new session ids                  *)
(*   turns    : the number of requests served so far                       *)
(*   faults   : the number of capability calls that have failed so far     *)
(*   response : the body of the last response sent                         *)
(*   lastTurn : what the last request carried, what the capabilities       *)
(*              answered in it and the session as it was before it         *)
(***************************************************************************)
VARIABLES sessions, clock, turns, faults, response, lastTurn

\* A run serves at most MaxTurns requests, and at most MaxFaults calls of an
\* external capability fail in it.
MaxTurns == 2
MaxFaults == 1

NoSessionId == 0

EmptyMap == [i \in {} |-> 0]

Entry(role, content) == [role |-> role, content |-> content]
UserText == Text("user", NoField, "none", "")
WelcomeText == Text("welcome", NoField, "none", "")

NewSession(sessionId) ==
    [id |-> sessionId, conversationHistory |-> <<>>,
     vacancy |-> getVacancyTemplate, status |-> "collecting",
     webhookSuccess |-> Undef]

NoResponse ==
    [http |-> 0, sessionId |-> NoSessionId, message |-> Text("none", NoField, "none", ""),
     isComplete |-> FALSE, jobDescription |-> Undef, webhookSuccess |-> Undef,
     completionPercentage |-> 0]

Response(sessionId, message, isComplete, jobDescription, webhookSuccess, percentage) ==
    [http |-> 200, sessionId |-> sessionId, message |-> message,
     isComplete |-> isComplete, jobDescription |-> jobDescription,
     webhookSuccess |-> webhookSuccess, completionPercentage |-> percentage]

NoTurn ==
    [kind |-> "none", sid |-> NoSessionId, created |-> FALSE, msg |-> NoMessage,
     before |-> getVacancyTemplate, beforeStatus |-> "collecting", beforeLen |-> 0,
     how |-> NotCalled, calls |-> {}, skipAnswer |-> NotCalled,
     extraction |-> NotCalled, json |-> EmptyPatch, intentAnswer |-> NotCalled,
     phrasing |-> NotCalled, generation |-> NotCalled, webhook |-> NotCalled]

RecruiterInit ==
    /\ sessions = EmptyMap
    /\ clock = 1
    /\ turns = 0
    /\ faults = 0
    /\ response = NoResponse
    /\ lastTurn = NoTurn

\* sessionId && sessions.has(sessionId)
SessionExists(requestId) == requestId # NoSessionId /\ requestId \in DOMAIN sessions

\* The session the request works on: the stored one, or a new one whose id
\* is Date.now().toString().
SessionOf(requestId) ==
    IF SessionExists(requestId) THEN sessions[requestId] ELSE NewSession(clock)

Store(session) == (session.id :> session) @@ sessions

BaseTurn(kind, requestId, msg) ==
    [NoTurn EXCEPT !.kind = kind, !.sid = SessionOf(requestId).id,
                   !.created = ~SessionExists(requestId), !.msg = msg,
                   !.before = SessionOf(requestId).vacancy,
                   !.beforeStatus = SessionOf(requestId).status,
                   !.beforeLen = Len(SessionOf(requestId).conversationHistory)]

\* The answers a capability may give: the failing ones only while the run's
\* budget of failures lasts.
Answers(all, failing, used) == IF used < MaxFaults THEN all ELSE all \ failing
Used(used, answer, failing) == IF answer \in failing THEN used + 1 ELSE used

\* conversationHistory.length === 0 && !message: the welcome prompt.
Welcome(requestId, msg) ==
    LET session == SessionOf(requestId)
    IN  /\ Len(session.conversationHistory) = 0
        /\ ~msg.truthy
        /\ sessions' = Store([session EXCEPT !.conversationHistory =
                                 <<Entry("assistant", WelcomeText)>>])
        /\ response' = Response(session.id, WelcomeText, FALSE, Undef, Undef, 0)
        /\ lastTurn' = BaseTurn("welcome", requestId, msg)
        /\ faults' = faults

\* The end of the handler, from the aiResponse on.  analysed is the session
\* after the user entry and the analysis result have been applied.
Respond(analysed, aiResponse, turn, generation, webhook) ==
    IF aiResponse.isComplete
    THEN LET jobDescription == generateJobDescription(analysed.vacancy, generation)
         IN  IF jobDescription = "TypeError"
             THEN /\ sessions' = Store([analysed EXCEPT
                        !.conversationHistory = Append(@, Entry("assistant", aiResponse.message)),
                        !.status = "completed"])
                  /\ response' = Response(analysed.id,
                        [aiResponse.message EXCEPT !.note = "generationFailed"],
                        TRUE, Undef, Undef, aiResponse.completionPercentage)
                  /\ lastTurn' = [turn EXCEPT !.calls = @ \cup aiResponse.calls,
                                               !.generation = "TypeError"]
             ELSE LET webhookSuccess == sendToWebhook(webhook) # "throw"
                      finalMessage ==
                          [aiResponse.message EXCEPT
                              !.doc = jobDescription,
                              !.note = IF webhookSuccess THEN "synced" ELSE "notSynced"]
                  IN  /\ sessions' = Store([analysed EXCEPT
                            !.conversationHistory = Append(@, Entry("assistant", finalMessage)),
                            !.status = "completed",
                            !.webhookSuccess = IF webhookSuccess THEN "b:true" ELSE "b:false"])
                      /\ response' = Response(analysed.id, finalMessage, TRUE, jobDescription,
                            IF webhookSuccess THEN "b:true" ELSE "b:false", 100)
                      /\ lastTurn' = [turn EXCEPT
                            !.calls = @ \cup aiResponse.calls \cup {"generate", "webhook"},
                            !.generation = generation, !.webhook = webhook]
    ELSE /\ sessions' = Store([analysed EXCEPT
                !.conversationHistory = Append(@, Entry("assistant", aiResponse.message)),
                !.status = "collecting"])
         /\ response' = Response(analysed.id, aiResponse.message, FALSE, Undef, Undef,
                aiResponse.completionPercentage)
         /\ lastTurn' = [turn EXCEPT !.calls = @ \cup aiResponse.calls]

\* generateResponse and everything after it, with the answers of the
\* capabilities the turn gets to call.  vacancy is session.vacancy as it was
\* when generateResponse was called, analysed the session as it is when
\* generateResponse has answered.
FinishWith(vacancy, analysed, msg, turn, used) ==
    \E intentAnswer \in (IF IntentIsAsked(msg, vacancy)
                         THEN Answers(IntentAnswers, IntentFaults, used)
                         ELSE {NotCalled}) :
      LET used1 == Used(used, intentAnswer, IntentFaults)
          phrases == "phrase" \in generateResponse(msg, vacancy,
                                                    intentAnswer, "ok").calls
      IN
      \E phrasing \in (IF phrases THEN Answers(CallOutcomes, {"throw"}, used1)
                       ELSE {NotCalled}) :
        LET used2 == Used(used1, phrasing, {"throw"})
            aiResponse == generateResponse(msg, vacancy, intentAnswer, phrasing)
            generates == aiResponse.isComplete /\ ~DescriptionPromptThrows(analysed.vacancy)
        IN
        \E generation \in (IF generates THEN Answers(CallOutcomes, {"throw"}, used2)
                           ELSE {NotCalled}) :
          LET used3 == Used(used2, generation, {"throw"})
          IN
          \E webhook \in (IF generates
                          THEN Answers(WebhookOutcomes, {"notok", "throw"}, used3)
                          ELSE {NotCalled}) :
            /\ Respond(analysed, aiResponse,
                       [turn EXCEPT !.intentAnswer = intentAnswer, !.phrasing = phrasing],
                       generation, webhook)
            /\ faults' = Used(used3, webhook, {"notok", "throw"})

\* A turn that no other request interleaves with.
Finish(analysed, msg, turn, used) ==
    FinishWith(analysed.vacancy, analysed, msg, turn, used)

\* app.post('/api/recruiter/chat') past the welcome branch.
ChatTurn(requestId, msg) ==
    LET session == SessionOf(requestId)
    IN  /\ ~(Len(session.conversationHistory) = 0 /\ ~msg.truthy)
        /\ IF msg.truthy
           THEN \E skipAnswer \in Answers(SkipAnswers, SkipFaults, faults) :
                  LET used1 == Used(faults, skipAnswer, SkipFaults)
                  IN
                  \E extraction \in (IF IncludesSkip(skipAnswer)
                                     THEN {Extraction(NotCalled, EmptyPatch)}
                                     ELSE Answers(ExtractionsFor(msg), ExtractionFaults,
                                                  used1)) :
                    LET analysisResult ==
                            analyzeMessage(msg, session.vacancy, skipAnswer, extraction)
                        analysed ==
                            [session EXCEPT
                                !.conversationHistory = Append(@, Entry("user", UserText)),
                                !.vacancy = IF analysisResult.success
                                            THEN analysisResult.updatedVacancy ELSE @]
                        turn ==
                            [BaseTurn("chat", requestId, msg) EXCEPT
                                !.how = analysisResult.how,
                                !.calls = analysisResult.calls,
                                !.skipAnswer = skipAnswer,
                                !.extraction = extraction.kind,
                                !.json = extraction.json]
                    IN  Finish(analysed, msg, turn,
                               Used(used1, extraction, ExtractionFaults))
           ELSE Finish(session, msg, BaseTurn("nomsg", requestId, msg), faults)

(***************************************************************************)
(* The VacancyBuilder server (ring search).  Its vacancy record is a       *)
(* function from the leaf paths of its template to tokens; a path whose    *)
(* key, or whose parent object, is absent holds Undef.  LegacyKeys are the *)
(* keys generateJobDescription reads, which the template does not have.    *)
(***************************************************************************)
fields ==
    <<"title", "department", "location.type", "location.city", "domain",
      "salary.from", "salary.to", "experience.min", "experience.max",
      "responsibilities", "skills", "secondary_skills", "soft_skills", "benefits",
      "is_remote">>

FieldNames == {fields[i] : i \in 1..Len(fields)}
LegacyKeys == {"coreSkills", "secondarySkills", "languages", SalaryKey}
BuilderPaths == FieldNames \cup LegacyKeys

ArrayFields == {"responsibilities", "skills", "secondary_skills", "soft_skills", "benefits"}

BuilderTemplate ==
    [p \in BuilderPaths |->
        IF p \in ArrayFields THEN EmptyArr
        ELSE IF p \in LegacyKeys THEN Undef
        ELSE Null]

\* fieldNames.indexOf(name), counted from 1; 0 when the name is absent.
IndexOf(name) ==
    IF name \in FieldNames THEN CHOOSE i \in 1..Len(fields) : fields[i] = name ELSE 0

\* value === null || (Array.isArray(value) && value.length === 0) || value === ''
IsUnfilled(value) == value = Null \/ value = EmptyArr \/ value = EmptyStr

\* A selection that always searches from the top of the schema.  C20 must
\* tell it from searchOrder.
searchOrderFromTop(lastFieldName) == fields

\* A ring search that starts at the field asked last instead of after it.
\* C24 must tell it from searchOrder.
searchOrderFromLast(lastFieldName) ==
    LET lastIndex == IndexOf(lastFieldName)
    IN  IF lastIndex = 0 THEN fields
        ELSE SubSeq(fields, lastIndex, Len(fields)) \o SubSeq(fields, 1, lastIndex - 1)

\* searchOrder = [...fieldNames.slice(lastIndex + 1), ...fieldNames.slice(0, lastIndex + 1)]
searchOrder(lastFieldName) ==
    LET lastIndex == IndexOf(lastFieldName)
    IN  SubSeq(fields, lastIndex + 1, Len(fields)) \o SubSeq(fields, 1, lastIndex)

findNextFieldToFill(vacancy, lastFieldName) ==
    LET order == searchOrder(lastFieldName)
        open == {i \in 1..Len(order) : IsUnfilled(vacancy[order[i]])}
    IN  IF open = {} THEN NoField
        ELSE order[CHOOSE i \in open : \A j \in open : i <= j]

\* VacancyBuilder.generateJobDescription: coreSkills.join, secondarySkills.join,
\* languages.map and salaryExpectations.min are TypeErrors unless the record
\* carries these keys; the capability's failure is not caught.
BuilderDescription(vacancy, outcome) ==
    IF ~IsArray(vacancy["coreSkills"]) \/ ~IsArray(vacancy["secondarySkills"])
       \/ ~IsArray(vacancy["languages"]) \/ vacancy[SalaryKey] # Obj
    THEN "TypeError"
    ELSE IF outcome = "ok" THEN "generated"
    ELSE "throw"

\* An answer to the extraction prompt: callAPI throws, the text is no JSON,
\* or it is a JSON object with a status ("" when the key is missing) and an
\* updatedVacancy ("hasVacancy" is FALSE when the key is missing or null).
Answer(kind, status, hasVacancy, updatedVacancy) ==
    [kind |-> kind, status |-> status, hasVacancy |-> hasVacancy,
     updatedVacancy |-> updatedVacancy]

\* VacancyBuilder.extractAndUpdateFields
extractAndUpdateFields(vacancy, answer) ==
    IF answer.kind # "json" \/ answer.status = "" \/ ~answer.hasVacancy
    THEN [status |-> "CLARIFICATION_NEEDED", updatedVacancy |-> vacancy,
          commentary |-> "rephrase"]
    ELSE [status |-> answer.status, updatedVacancy |-> answer.updatedVacancy,
          commentary |-> "commentary"]

\* A filled value of the field's type.
SampleValue(field) ==
    IF field \in ArrayFields THEN "a:[React]"
    ELSE IF field = "is_remote" THEN "b:false"
    ELSE IF field \in {"salary.from", "salary.to", "experience.min", "experience.max"}
    THEN "n:0"
    ELSE "s:IT"

\* The updatedVacancy objects the model may answer with, given the record it
\* was shown: the record as it is, with the next field filled, with every
\* field filled (with and without the keys of the description prompt), with
\* the title erased, and with the title's key left out.
UpdatedVacancies(vacancy, lastQuestionField) ==
    LET next == findNextFieldToFill(vacancy, lastQuestionField)
        full == [p \in BuilderPaths |->
                    IF p \in FieldNames THEN SampleValue(p) ELSE vacancy[p]]
    IN  {vacancy,
         IF next = NoField THEN vacancy ELSE [vacancy EXCEPT ![next] = SampleValue(next)],
         full,
         [p \in BuilderPaths |->
            IF p = SalaryKey THEN Obj
            ELSE IF p \in LegacyKeys THEN "a:[React]"
            ELSE full[p]],
         [vacancy EXCEPT !["title"] = Null],
         [vacancy EXCEPT !["title"] = Undef]}

AnswerFaults(vacancy) ==
    {Answer("throw", "", FALSE, vacancy), Answer("garbage", "", FALSE, vacancy),
     Answer("json", "", TRUE, vacancy), Answer("json", "SUCCESS", FALSE, vacancy)}

AnswersFor(vacancy, lastQuestionField) ==
    AnswerFaults(vacancy)
    \cup {Answer("json", st, TRUE, u) :
            st \in {"SUCCESS", "CLARIFICATION_NEEDED"},
            u \in UpdatedVacancies(vacancy, lastQuestionField)}

(***************************************************************************)
(* State of the VacancyBuilder server.                                     *)
(*   builderSessions : its Map of sessions                                 *)
(*   builderResponse : the last response sent                              *)
(*   builderTurn     : what the last request carried, what the             *)
(*                     capabilities answered and the session before it     *)
(***************************************************************************)
VARIABLES builderSessions, builderResponse, builderTurn

\* jobReply : the last request to /api/generate-job and its response
VARIABLE jobReply

\* race : two turns in flight on one session of the IntelligentRecruiterChat
\*        server, each at one of its awaits, and the order their analysis
\*        results were stored in
\* ring : a VacancyBuilder record and lastQuestionField that
\*        findNextFieldToFill is called on, and what the calls returned
VARIABLES race, ring

\* coop : one session of the IntelligentRecruiterChat server with a user who
\*        answers every question: the record, whether the last turn
\*        completed, and the parity of the number of turns served
VARIABLE coop

\* The ProgressiveJobCollector server (server.js):
\*   rows              : the table recruiter_sessions, keyed by id
\*   uuids             : the number of ids uuidv4() has returned so far
\*   served            : the number of chat requests served so far
\*   collectorResponse : the body of the last response sent
\*   collectorTurn     : what the last request carried and what it did
VARIABLES rows, uuids, served, collectorResponse, collectorTurn

\* handled : the last chat request handled by any of the three servers: the
\*           branches its handler took and the number of responses it sent
VARIABLE handled

builderVars == <<builderSessions, builderResponse, builderTurn>>
collectorVars == <<rows, uuids, served, collectorResponse, collectorTurn>>
vars == <<sessions, clock, turns, faults, response, lastTurn,
          builderSessions, builderResponse, builderTurn, jobReply, race, ring,
          coop, rows, uuids, served, collectorResponse, collectorTurn, handled>>

\* A turn in flight: where it is (pc), what it read and was answered so far
\* (turn, with the record it captured at its start in turn.before), and
\* session.vacancy as generateResponse was handed it (seen).
Racers == {"first", "second"}
IdleRacer == [pc |-> "idle", turn |-> NoTurn, seen |-> getVacancyTemplate]
NoRace == [turn |-> [r \in Racers |-> IdleRacer], stored |-> <<>>]

\* Nothing selected yet.
NoRing ==
    [phase |-> "idle", vacancy |-> BuilderTemplate, lastQuestionField |-> NoField,
     start |-> NoField, visited |-> <<>>, probed |-> <<>>]

BuilderSession(sessionId) ==
    [id |-> sessionId, conversationHistory |-> <<>>, vacancy |-> BuilderTemplate,
     status |-> "collecting", lastQuestionField |-> NoField]

BuilderText(kind, field) == [kind |-> kind, field |-> field]

BuilderReply(http, sessionId, message, isComplete) ==
    [http |-> http, sessionId |-> sessionId, message |-> message,
     isComplete |-> isComplete]

NoBuilderTurn ==
    [kind |-> "none", hasMessage |-> FALSE, created |-> FALSE, clientId |-> NoSessionId,
     before |-> BuilderSession(NoSessionId),
     answer |-> Answer(NotCalled, "", FALSE, BuilderTemplate),
     status |-> NotCalled, selected |-> NotCalled,
     phrasing |-> NotCalled, generation |-> NotCalled]

BuilderInit ==
    /\ builderSessions = EmptyMap
    /\ builderResponse = BuilderReply(0, NoSessionId, BuilderText("none", NoField), FALSE)
    /\ builderTurn = NoBuilderTurn

BuilderExists(requestId) ==
    requestId # NoSessionId /\ requestId \in DOMAIN builderSessions

BuilderSessionOf(requestId) ==
    IF BuilderExists(requestId) THEN builderSessions[requestId] ELSE BuilderSession(clock)

BuilderStore(session) == (session.id :> session) @@ builderSessions

\* VacancyBuilder.generateNextResponse and the end of the handler.  The
\* session object is mutated as the handler goes, so an exception leaves the
\* changes made before it in the stored session.
BuilderFinish(session, turn, used) ==
    LET nextField == findNextFieldToFill(session.vacancy, session.lastQuestionField)
    IN  IF nextField = NoField
        THEN \E generation \in (IF BuilderDescription(session.vacancy, "ok") = "TypeError"
                                 THEN {NotCalled}
                                 ELSE Answers(CallOutcomes, {"throw"}, used)) :
               LET vacancyText == BuilderDescription(session.vacancy, generation)
                   message == BuilderText("document", NoField)
               IN  /\ faults' = Used(used, generation, {"throw"})
                   /\ builderTurn' = [turn EXCEPT
                         !.selected = NoField, !.generation = vacancyText,
                         !.clientId = IF vacancyText = "generated" THEN session.id ELSE @]
                   /\ IF vacancyText = "generated"
                      THEN /\ builderSessions' = BuilderStore([session EXCEPT
                                 !.conversationHistory = Append(@, Entry("assistant", message)),
                                 !.status = "pending_generation"])
                           /\ builderResponse' = BuilderReply(200, session.id, message, TRUE)
                      ELSE /\ builderSessions' = BuilderStore(session)
                           /\ builderResponse' =
                                 BuilderReply(500, NoSessionId, BuilderText("error", NoField), FALSE)
        ELSE \E phrasing \in Answers(CallOutcomes, {"throw"}, used) :
               LET asked == [session EXCEPT !.lastQuestionField = nextField]
                   message == BuilderText("question", nextField)
               IN  /\ faults' = Used(used, phrasing, {"throw"})
                   /\ builderTurn' = [turn EXCEPT
                         !.selected = nextField, !.phrasing = phrasing,
                         !.clientId = IF phrasing = "ok" THEN session.id ELSE @]
                   /\ IF phrasing = "ok"
                      THEN /\ builderSessions' = BuilderStore([asked EXCEPT
                                 !.conversationHistory = Append(@, Entry("assistant", message)),
                                 !.status = "collecting"])
                           /\ builderResponse' = BuilderReply(200, session.id, message, FALSE)
                      ELSE /\ builderSessions' = BuilderStore(asked)
                           /\ builderResponse' =
                                 BuilderReply(500, NoSessionId, BuilderText("error", NoField), FALSE)

\* app.post('/api/recruiter/chat') of the VacancyBuilder server.
BuilderTurn(requestId, hasMessage) ==
    LET session == BuilderSessionOf(requestId)
        turn == [NoBuilderTurn EXCEPT !.kind = "chat", !.hasMessage = hasMessage,
                                      !.created = ~BuilderExists(requestId),
                                      !.clientId = requestId,
                                      !.before = session]
    IN  IF hasMessage
        THEN \E answer \in Answers(AnswersFor(session.vacancy, session.lastQuestionField),
                                   AnswerFaults(session.vacancy), faults) :
               LET extractionResult == extractAndUpdateFields(session.vacancy, answer)
                   used == Used(faults, answer, AnswerFaults(session.vacancy))
                   updated == [session EXCEPT
                                  !.conversationHistory = Append(@, Entry("user", UserText)),
                                  !.vacancy = extractionResult.updatedVacancy]
                   told == [turn EXCEPT !.answer = answer,
                                        !.status = extractionResult.status]
               IN  IF extractionResult.status = "CLARIFICATION_NEEDED"
                   THEN LET message == BuilderText(extractionResult.commentary, NoField)
                        IN  /\ builderSessions' = BuilderStore([updated EXCEPT
                                  !.conversationHistory = Append(@, Entry("assistant", message))])
                            /\ builderResponse' = BuilderReply(200, session.id, message, FALSE)
                            /\ builderTurn' = [told EXCEPT !.clientId = session.id]
                            /\ faults' = used
                   ELSE BuilderFinish(updated, told, used)
        ELSE BuilderFinish(session, turn, faults)

BuilderRequest ==
    /\ turns < MaxTurns
    /\ \E hasMessage \in BOOLEAN : BuilderTurn(builderTurn.clientId, hasMessage)
    /\ turns' = turns + 1
    /\ clock' = clock + 1
    /\ UNCHANGED <<handled, coop, collectorVars, sessions, response, lastTurn, jobReply, race, ring>>

BuilderNext == BuilderRequest

(***************************************************************************)
(* One conversation: the client sends its first request without a session  *)
(* id and every later one with the id the last response carried.  Time     *)
(* passes between two requests of a conversation.                          *)
(***************************************************************************)
WelcomeRequest ==
    /\ turns < MaxTurns
    /\ \E msg \in Messages : Welcome(response.sessionId, msg)
    /\ turns' = turns + 1
    /\ clock' = clock + 1
    /\ UNCHANGED <<handled, coop, collectorVars, builderVars, jobReply, race, ring>>

ChatRequest ==
    /\ turns < MaxTurns
    /\ \E msg \in Messages : ChatTurn(response.sessionId, msg)
    /\ turns' = turns + 1
    /\ clock' = clock + 1
    /\ UNCHANGED <<handled, coop, collectorVars, builderVars, jobReply, race, ring>>

Next == WelcomeRequest \/ ChatRequest

(***************************************************************************)
(* The synchronous generation endpoints.                                   *)
(***************************************************************************)
NoRequest == <<Undef, Undef, Undef>>

\* endpoint : "memory" (IntelligentRecruiterChat), "sqlite" (server.js)
\* found    : the session the request names is stored
\* record   : the record the request named; request : the jobTitle,
\*            experienceYears and coreSkills the request carried
\* called   : the generation capability was called
JobReply(endpoint, http, found, record, request, called, jobDescription) ==
    [endpoint |-> endpoint, http |-> http, found |-> found, record |-> record,
     request |-> request, called |-> called, jobDescription |-> jobDescription]

NoJobReply == JobReply("none", 0, FALSE, getVacancyTemplate, NoRequest, FALSE, Undef)

\* app.post('/api/generate-job') of the IntelligentRecruiterChat server.
GenerateJob(requestId, outcome) ==
    IF ~SessionExists(requestId)
    THEN /\ jobReply' = JobReply("memory", 400, FALSE, getVacancyTemplate, NoRequest,
                                 FALSE, Undef)
         /\ faults' = faults
    ELSE LET vacancy == sessions[requestId].vacancy
             jobDescription == generateJobDescription(vacancy, outcome)
         IN  IF ~isVacancyComplete(vacancy)
             THEN /\ jobReply' = JobReply("memory", 400, TRUE, vacancy, NoRequest,
                                          FALSE, Undef)
                  /\ faults' = faults
             ELSE IF jobDescription = "TypeError"
             THEN /\ jobReply' = JobReply("memory", 500, TRUE, vacancy, NoRequest,
                                          FALSE, Undef)
                  /\ faults' = faults
             ELSE /\ jobReply' = JobReply("memory", 200, TRUE, vacancy, NoRequest,
                                          TRUE, jobDescription)
                  /\ faults' = Used(faults, outcome, {"throw"})

\* app.post('/api/generate-job') of server.js: the mandatory fields come with
\* the request; generateJobDescription has no fallback.
GenerateJobSqlite(jobTitle, experienceYears, coreSkills, outcome) ==
    LET request == <<jobTitle, experienceYears, coreSkills>>
    IN  IF ~Truthy(jobTitle) \/ ~Truthy(experienceYears) \/ ~Truthy(coreSkills)
        THEN /\ jobReply' = JobReply("sqlite", 400, FALSE, getVacancyTemplate, request,
                                     FALSE, Undef)
             /\ faults' = faults
        ELSE /\ jobReply' = JobReply("sqlite", IF outcome = "ok" THEN 200 ELSE 500, FALSE,
                                     getVacancyTemplate, request, TRUE,
                                     IF outcome = "ok" THEN "generated" ELSE Undef)
             /\ faults' = Used(faults, outcome, {"throw"})

(***************************************************************************)
(* ProgressiveJobCollector (server.js): the six fields, the extraction     *)
(* answer and the selection of the next question.                          *)
(***************************************************************************)
\* this.fields, by name
collectorFields ==
    <<"job_title", "experience_years", "core_skills", "salary_range", "work_format",
      "additional_requirements">>
CollectorNames == {collectorFields[i] : i \in 1..Len(collectorFields)}

\* The marker the extraction prompt asks for when a field was not found.
NotSpecified == "s:NOT_SPECIFIED"

\* JSON.parse('{}'): no key is present.
NoRequirements == [f \in CollectorNames |-> Undef]

\* !(!value || value === NOT_SPECIFIED): the test every loop over the fields
\* applies.
IsCollected(value) == Truthy(value) /\ value # NotSpecified

\* extractAllFieldsInfo: a failed call and an answer JSON.parse rejects are
\* both caught and answered with the marker for every field; any JSON value
\* that parses is returned as it is, the value null included.
AllNotSpecified == [f \in CollectorNames |-> NotSpecified]
Found(p) == [f \in CollectorNames |-> IF f \in DOMAIN p THEN p[f] ELSE NotSpecified]
FoundTitle == Found("job_title" :> "s:Python developer")
FoundRequired ==
    Found("job_title" :> "s:Frontend developer" @@ "experience_years" :> "s:3"
          @@ "core_skills" :> "s:React")
FoundZeroYears == Found("experience_years" :> "n:0" @@ "core_skills" :> "s:Python")
FoundOptional ==
    Found("salary_range" :> "s:100-150k" @@ "work_format" :> "s:remote")
FoundAdditional == Found("additional_requirements" :> "s:English")
FoundAll ==
    Found("job_title" :> "s:Frontend developer" @@ "experience_years" :> "s:3"
          @@ "core_skills" :> "s:React" @@ "salary_range" :> "s:100-150k"
          @@ "work_format" :> "s:remote" @@ "additional_requirements" :> "s:English")
CollectorAnswers ==
    {Extraction("throw", AllNotSpecified), Extraction("garbage", AllNotSpecified),
     Extraction("null", AllNotSpecified)}
    \cup {Extraction("json", p) : p \in {AllNotSpecified, FoundTitle, FoundRequired,
                                          FoundZeroYears, FoundOptional,
                                          FoundAdditional, FoundAll}}
extractAllFieldsInfo(answer) ==
    IF answer.kind \in {"json", "null"} THEN answer
    ELSE Extraction("json", AllNotSpecified)

\* Object.entries(null) is a TypeError.
ObjectEntriesThrows(extractedFields) == extractedFields.kind = "null"

\* for ([fieldName, fieldValue] of Object.entries(extractedFields))
\*     if (fieldValue !== NOT_SPECIFIED) jobFields[fieldName] = fieldValue
MergeFields(jobFields, extractedFields) ==
    [f \in CollectorNames |->
        IF extractedFields[f] \notin {Undef, NotSpecified} THEN extractedFields[f]
        ELSE jobFields[f]]

\* The positions (from 0) of the fields not collected.
Uncollected(jobFields) ==
    {i \in 0..(Len(collectorFields) - 1) : ~IsCollected(jobFields[collectorFields[i + 1]])}

\* currentFieldIndex: the position of the first field not collected, the
\* number of fields when all are.
CurrentFieldIndex(jobFields) ==
    IF Uncollected(jobFields) = {} THEN Len(collectorFields)
    ELSE CHOOSE i \in Uncollected(jobFields) : \A j \in Uncollected(jobFields) : i <= j

CollectorText(kind, field) == [kind |-> kind, field |-> field]

\* The nextFieldIndex of an answer that carries none (undefined).
NoIndex == -1

\* generateNextResponse: both completion returns carry nextField: null and no
\* nextFieldIndex; the question carries the field's name and position; the
\* catch block, entered when the phraser call throws, carries the name only.
generateNextResponse(collectedFields, currentFieldIndex, phrasing) ==
    LET allRequiredCollected ==
            \A f \in {"job_title", "experience_years", "core_skills"} :
                IsCollected(collectedFields[f])
        nextFieldIndex == CurrentFieldIndex(collectedFields)
    IN  IF allRequiredCollected /\ currentFieldIndex >= Len(collectorFields)
        THEN [message |-> CollectorText("allCollected", NoField), isComplete |-> TRUE,
              nextField |-> Null, nextFieldIndex |-> NoIndex]
        ELSE IF nextFieldIndex = Len(collectorFields)
        THEN [message |-> CollectorText("collected", NoField), isComplete |-> TRUE,
              nextField |-> Null, nextFieldIndex |-> NoIndex]
        ELSE IF phrasing = "ok"
        THEN [message |-> CollectorText("question", collectorFields[nextFieldIndex + 1]),
              isComplete |-> FALSE, nextField |-> collectorFields[nextFieldIndex + 1],
              nextFieldIndex |-> nextFieldIndex]
        ELSE [message |-> CollectorText("fallbackQuestion",
                                        collectorFields[nextFieldIndex + 1]),
              isComplete |-> FALSE, nextField |-> collectorFields[nextFieldIndex + 1],
              nextFieldIndex |-> NoIndex]

\* let nextField = aiResponse.nextField || currentField: the handler declares
\* no currentField, so the right operand is a ReferenceError, evaluated
\* exactly when aiResponse.nextField is falsy.
NextFieldThrows(aiResponse) == aiResponse.nextField \in {Null, Undef, EmptyStr}

\* The value stored as current_field and returned as nextField.
NextFieldOf(aiResponse) ==
    IF aiResponse.nextFieldIndex # NoIndex /\ aiResponse.nextFieldIndex < Len(collectorFields)
    THEN collectorFields[aiResponse.nextFieldIndex + 1]
    ELSE IF aiResponse.isComplete THEN "completed"
    ELSE aiResponse.nextField

\* A row of recruiter_sessions with its columns parsed.
Row(id, history, requirements, currentField) ==
    [id |-> id, conversation_history |-> history, requirements |-> requirements,
     current_field |-> currentField]
NewRow(id) == Row(id, <<>>, NoRequirements, "job_title")

\* An id the client sends that names no row.
UnknownSessionId == -1

CollectorReply(text, sessionId, isComplete, collectedFields, nextField) ==
    [response |-> text, sessionId |-> sessionId, isComplete |-> isComplete,
     collectedFields |-> collectedFields, nextField |-> nextField]
NoCollectorReply ==
    CollectorReply(CollectorText("none", NoField), NoSessionId, FALSE, Undef, Undef)

\* kind "chat": the try block ran to res.json; "error": the catch block
\* answered.  worked is the id of the session the handler worked on, created
\* whether it inserted that row, merged the fields after the merge (when the
\* handler got that far), before the table before the request.
NoCollectorTurn ==
    [kind |-> "none", clientId |-> NoSessionId, worked |-> NoSessionId,
     created |-> FALSE, answer |-> NotCalled, merged |-> NoRequirements,
     error |-> "none",
     before |-> EmptyMap]

CollectorInit ==
    /\ rows = EmptyMap
    /\ uuids = 0
    /\ served = 0
    /\ collectorResponse = NoCollectorReply
    /\ collectorTurn = NoCollectorTurn

\* No request has been handled.
NoHandled == [server |-> "none", sent |-> 0]

\* The cooperative conversation has not begun.
NoCoop == [phase |-> "idle", vacancy |-> getVacancyTemplate, odd |-> FALSE]

\* Every server starts with an empty session store.
Init ==
    /\ RecruiterInit
    /\ BuilderInit
    /\ jobReply = NoJobReply
    /\ race = NoRace
    /\ ring = NoRing
    /\ coop = NoCoop
    /\ CollectorInit
    /\ handled = NoHandled

Spec == Init /\ [][Next]_vars

\* One conversation with the VacancyBuilder server.
SpecBuilder == Init /\ [][BuilderNext]_vars

(***************************************************************************)
(* A conversation with the IntelligentRecruiterChat server during which    *)
(* the client also calls /api/generate-job, and requests to the            *)
(* /api/generate-job of server.js.                                         *)
(***************************************************************************)
JobTitles == {EmptyStr, "s:Frontend developer"}
ExperienceYears == {Undef, "n:0", "n:3"}
CoreSkills == {Undef, "s:React, Node"}

\* The client calls the endpoint after at most MaxBriefs chat turns.
MaxBriefs == 1

BriefRequest ==
    /\ turns < MaxBriefs
    /\ ChatTurn(response.sessionId, MsgBrief)
    /\ turns' = turns + 1
    /\ clock' = clock + 1
    /\ UNCHANGED <<handled, coop, collectorVars, builderVars, jobReply, race, ring>>

GenerateJobRequest ==
    /\ \E requestId \in {NoSessionId, response.sessionId},
          outcome \in Answers(CallOutcomes, {"throw"}, faults) :
            GenerateJob(requestId, outcome)
    /\ UNCHANGED <<handled, coop, collectorVars, sessions, clock, turns, response, lastTurn, builderVars, race, ring>>

GenerateJobSqliteRequest ==
    /\ \E jobTitle \in JobTitles, experienceYears \in ExperienceYears,
          coreSkills \in CoreSkills,
          outcome \in Answers(CallOutcomes, {"throw"}, faults) :
            GenerateJobSqlite(jobTitle, experienceYears, coreSkills, outcome)
    /\ UNCHANGED <<handled, coop, collectorVars, sessions, clock, turns, response, lastTurn, builderVars, race, ring>>

GenerateNext == BriefRequest \/ GenerateJobRequest \/ GenerateJobSqliteRequest

SpecGenerate == Init /\ [][GenerateNext]_vars

(***************************************************************************)
(* Several clients of the IntelligentRecruiterChat server.  A request      *)
(* carries no session id, the id of a stored session or an id the store    *)
(* does not hold; requests are served one after the other, and Date.now()  *)
(* may or may not have advanced between two of them.                       *)
(***************************************************************************)
MaxClock == 2

RequestIds == NoSessionId .. MaxClock
SessionMessages == {NoMessage, MsgScenarioA}

Tick ==
    /\ clock < MaxClock
    /\ clock' = clock + 1
    /\ UNCHANGED <<handled, coop, collectorVars, sessions, turns, faults, response, lastTurn, builderVars, jobReply, race, ring>>

WelcomeAny ==
    /\ turns < MaxTurns
    /\ \E requestId \in RequestIds, msg \in SessionMessages : Welcome(requestId, msg)
    /\ turns' = turns + 1
    /\ UNCHANGED <<handled, coop, collectorVars, clock, builderVars, jobReply, race, ring>>

ChatAny ==
    /\ turns < MaxTurns
    /\ \E requestId \in RequestIds, msg \in SessionMessages : ChatTurn(requestId, msg)
    /\ turns' = turns + 1
    /\ UNCHANGED <<handled, coop, collectorVars, clock, builderVars, jobReply, race, ring>>

SessionsNext == Tick \/ WelcomeAny \/ ChatAny

SpecSessions == Init /\ [][SessionsNext]_vars

(***************************************************************************)
(* Two turns in flight on one session of the IntelligentRecruiterChat      *)
(* server.  The handler runs without interruption between two awaits, so a *)
(* turn is three steps: up to the call of analyzeMessage, from its answer  *)
(* up to the call of generateResponse, and from there to the response.     *)
(* The awaits inside analyzeMessage follow each other without a write, and *)
(* those after generateResponse do not write the record.                   *)
(***************************************************************************)
RaceMessages == {MsgScenarioA, MsgRemote}

\* The session the two turns work on: the one the welcome request opened.
RaceSession == sessions[response.sessionId]

\* A serialized handler: the analysis is worked out from the record the
\* session holds when the result is stored.  C17 must tell it from
\* AnalysedVacancy.
AnalysedVacancyStored(captured, current) == current

\* const { conversationHistory, vacancy } = session: analyzeMessage is
\* handed the record read when the turn started, not the one the session
\* holds when the answer arrives.
AnalysedVacancy(captured, current) == captured

\* The request that opens the session both turns will name.
RaceOpen ==
    /\ sessions = EmptyMap
    /\ Welcome(NoSessionId, NoMessage)
    /\ turns' = turns + 1
    /\ clock' = clock + 1
    /\ UNCHANGED <<handled, coop, collectorVars, builderVars, jobReply, race, ring>>

\* From the request to the call of analyzeMessage.
RaceStart(r) ==
    /\ race.turn[r].pc = "idle"
    /\ SessionExists(response.sessionId)
    /\ \E msg \in RaceMessages :
         /\ sessions' = Store([RaceSession EXCEPT
                !.conversationHistory = Append(@, Entry("user", UserText))])
         /\ race' = [race EXCEPT !.turn[r] =
                [pc |-> "analysing",
                 turn |-> BaseTurn("chat", response.sessionId, msg),
                 seen |-> RaceSession.vacancy]]
    /\ UNCHANGED <<handled, coop, collectorVars, clock, turns, faults, response, lastTurn, builderVars, jobReply, ring>>

\* From the answer of analyzeMessage to the call of generateResponse.
RaceAnalysed(r) ==
    /\ race.turn[r].pc = "analysing"
    /\ LET racer == race.turn[r]
           msg == racer.turn.msg
       IN
       \E skipAnswer \in Answers(SkipAnswers, SkipFaults, faults) :
         LET used1 == Used(faults, skipAnswer, SkipFaults)
         IN
         \E extraction \in (IF IncludesSkip(skipAnswer)
                            THEN {Extraction(NotCalled, EmptyPatch)}
                            ELSE Answers(ExtractionsFor(msg), ExtractionFaults, used1)) :
           LET analysisResult ==
                   analyzeMessage(msg,
                                  AnalysedVacancy(racer.turn.before, RaceSession.vacancy),
                                  skipAnswer, extraction)
               vacancy == IF analysisResult.success
                          THEN analysisResult.updatedVacancy
                          ELSE RaceSession.vacancy
           IN  /\ sessions' = Store([RaceSession EXCEPT !.vacancy = vacancy])
               /\ race' = [race EXCEPT
                      !.turn[r] =
                          [pc |-> "responding",
                           turn |-> [racer.turn EXCEPT
                                        !.how = analysisResult.how,
                                        !.calls = analysisResult.calls,
                                        !.skipAnswer = skipAnswer,
                                        !.extraction = extraction.kind,
                                        !.json = extraction.json],
                           seen |-> vacancy],
                      !.stored = IF analysisResult.success THEN Append(@, r) ELSE @]
               /\ faults' = Used(used1, extraction, ExtractionFaults)
    /\ UNCHANGED <<handled, coop, collectorVars, clock, turns, response, lastTurn, builderVars, jobReply, ring>>

\* From the answer of generateResponse to the response.
RaceRespond(r) ==
    /\ race.turn[r].pc = "responding"
    /\ FinishWith(race.turn[r].seen, RaceSession, race.turn[r].turn.msg,
                  race.turn[r].turn, faults)
    /\ race' = [race EXCEPT !.turn[r].pc = "done"]
    /\ turns' = turns + 1
    /\ UNCHANGED <<handled, coop, collectorVars, clock, builderVars, jobReply, ring>>

RaceNext ==
    \/ RaceOpen
    \/ \E r \in Racers : RaceStart(r)
    \/ \E r \in Racers : RaceAnalysed(r)
    \/ \E r \in Racers : RaceRespond(r)

SpecRace == Init /\ [][RaceNext]_vars

(***************************************************************************)
(* The selection functions called on their own: findNextFieldToFill walked *)
(* round the ring of fields as generateNextResponse does it, and both      *)
(* selection functions called twice on the same arguments.                 *)
(***************************************************************************)
\* What a call of a selection function leaves: the field returned and the
\* arguments as they are after the call.
Selected(field, vacancy, lastFieldName) ==
    [field |-> field, vacancy |-> vacancy, lastQuestionField |-> lastFieldName]

\* A selection that moves the ring itself.  C19 must tell it from SelectNext.
SelectNextAdvancing(vacancy, lastFieldName) ==
    Selected(findNextFieldToFill(vacancy, lastFieldName), vacancy,
             findNextFieldToFill(vacancy, lastFieldName))

\* this.findNextFieldToFill(vacancy, lastQuestionField): the function reads
\* its arguments and assigns to none of them.
SelectNext(vacancy, lastFieldName) ==
    Selected(findNextFieldToFill(vacancy, lastFieldName), vacancy, lastFieldName)

\* aiRecruiter.getNextMissingField(vacancy), which has no ring position.
SelectNextMissing(vacancy) == Selected(getNextMissingField(vacancy), vacancy, NoField)

\* The VacancyBuilder records selection is called on: nothing filled, the
\* first three fields filled, every field but benefits filled, all filled.
RingRecords ==
    {BuilderTemplate,
     [p \in BuilderPaths |->
        IF p \in {"title", "department", "location.type"} THEN SampleValue(p)
        ELSE BuilderTemplate[p]],
     [p \in BuilderPaths |->
        IF p \in FieldNames \ {"benefits"} THEN SampleValue(p) ELSE BuilderTemplate[p]],
     [p \in BuilderPaths |->
        IF p \in FieldNames THEN SampleValue(p) ELSE BuilderTemplate[p]]}

\* The IntelligentRecruiterChat records selection is called on.
MissingRecords ==
    {getVacancyTemplate,
     MergeVacancy(getVacancyTemplate, PatchScenarioA),
     MergeVacancy(getVacancyTemplate, PatchMandatory),
     MergeVacancy(getVacancyTemplate, PatchMandatoryZero),
     MergeVacancy(getVacancyTemplate,
                  With(Patch("secondarySkills" :> "a:[React]"
                             @@ "overallExperiencesTo" :> "n:0"
                             @@ "languages" :> "a:[English B2]"
                             @@ "education" :> "b:false"),
                       PatchUpToCompany)),
     MergeVacancy(getVacancyTemplate, PatchFull)}

\* A session whose lastQuestionField is any of the fields, or not yet set.
RingStart ==
    /\ ring.phase = "idle"
    /\ \E vacancy \in RingRecords, last \in FieldNames \cup {NoField} :
         ring' = [NoRing EXCEPT !.phase = "walking", !.vacancy = vacancy,
                                !.lastQuestionField = last, !.start = last]
    /\ UNCHANGED <<handled, coop, collectorVars, sessions, clock, turns, faults, response, lastTurn, builderVars,
                   jobReply, race>>

\* generateNextResponse: select, and session.lastQuestionField = nextField.name
\* when a field was returned.
RingStep ==
    /\ ring.phase = "walking"
    /\ Len(ring.visited) < Len(fields)
    /\ LET call == SelectNext(ring.vacancy, ring.lastQuestionField)
       IN  ring' = [ring EXCEPT
                !.vacancy = call.vacancy,
                !.lastQuestionField = IF call.field = NoField
                                      THEN call.lastQuestionField ELSE call.field,
                !.visited = Append(@, call.field)]
    /\ UNCHANGED <<handled, coop, collectorVars, sessions, clock, turns, faults, response, lastTurn, builderVars,
                   jobReply, race>>

\* findNextFieldToFill called twice on the session as it is: probed holds
\* the arguments, then what each call leaves.
RingProbe ==
    /\ ring.phase = "walking"
    /\ ring.probed = <<>>
    /\ LET first == SelectNext(ring.vacancy, ring.lastQuestionField)
           second == SelectNext(first.vacancy, first.lastQuestionField)
       IN  ring' = [ring EXCEPT
                !.phase = "probed",
                !.vacancy = second.vacancy,
                !.lastQuestionField = second.lastQuestionField,
                !.probed = <<Selected(NoField, ring.vacancy, ring.lastQuestionField),
                             first, second>>]
    /\ UNCHANGED <<handled, coop, collectorVars, sessions, clock, turns, faults, response, lastTurn, builderVars,
                   jobReply, race>>

\* getNextMissingField called twice on a record of the recruiter.
MissingProbe ==
    /\ ring.phase = "idle"
    /\ \E vacancy \in MissingRecords :
         LET first == SelectNextMissing(vacancy)
             second == SelectNextMissing(first.vacancy)
         IN  ring' = [ring EXCEPT
                  !.phase = "missing",
                  !.probed = <<Selected(NoField, vacancy, NoField), first, second>>]
    /\ UNCHANGED <<handled, coop, collectorVars, sessions, clock, turns, faults, response, lastTurn, builderVars,
                   jobReply, race>>

RingNext == RingStart \/ RingStep \/ RingProbe \/ MissingProbe

SpecRing == Init /\ [][RingNext]_vars

(***************************************************************************)
(* The ring walked while the user fills fields out of order: between two   *)
(* questions the extraction may fill any of FillableFields, whichever      *)
(* field was asked.                                                        *)
(***************************************************************************)
FillableFields == {"title", "department", "domain", "skills", "benefits", "is_remote"}

\* session.vacancy = extractionResult.updatedVacancy, with one more field
\* filled than before.
RingFill ==
    /\ ring.phase = "walking"
    /\ Len(ring.visited) < Len(fields)
    /\ \E field \in FillableFields :
         /\ IsUnfilled(ring.vacancy[field])
         /\ ring' = [ring EXCEPT !.vacancy[field] = SampleValue(field)]
    /\ UNCHANGED <<handled, coop, collectorVars, sessions, clock, turns, faults, response, lastTurn, builderVars,
                   jobReply, race>>

AskNext == RingStart \/ RingStep \/ RingFill

SpecAsk == Init /\ [][AskNext]_vars

(***************************************************************************)
(* The IntelligentRecruiterChat handler with a cooperative user: in every  *)
(* turn the field asked about is either skipped, or filled by the          *)
(* extraction, which may fill one more field the user mentions.            *)
(***************************************************************************)
\* The extraction answer that fills one field; a member of
\* salaryExpectations comes inside the nested object.
CoopPatch(field) ==
    [k \in Paths |->
        IF k = field \/ (field \in SalaryMembers /\ k = SalaryKey) THEN PatchFull[k]
        ELSE Undef]

\* The fields the user may mention unasked.
CoopExtras == {NoField, "locationType", "companyType", "languages", "description"}

\* The first request of the session: the welcome, which asks for the first
\* missing field of the template.
CoopStart ==
    /\ coop.phase = "idle"
    /\ coop' = [NoCoop EXCEPT !.phase = "asking"]
    /\ UNCHANGED <<handled, collectorVars, sessions, clock, turns, faults, response, lastTurn,
                   builderVars, jobReply, race, ring>>

\* A turn with a message: analyzeMessage, session.vacancy = updatedVacancy,
\* generateResponse.
CoopTurn ==
    /\ coop.phase = "asking"
    /\ \E skipAnswer \in {"skip", "fill"}, extra \in CoopExtras,
          intentAnswer \in {"yes", "no"} :
         LET pending == getNextMissingField(coop.vacancy)
             json == With(CoopPatch(pending), CoopPatch(extra))
             analysed == analyzeMessage(MsgBrief, coop.vacancy, skipAnswer,
                                        Extraction("json", json))
             reply == generateResponse(MsgBrief, analysed.updatedVacancy, intentAnswer,
                                       "ok")
         IN  /\ analysed.success
             /\ analysed.how = "skip"
                  \/ ~FieldIsMissing(analysed.updatedVacancy, pending)
             /\ coop' = [phase |-> IF reply.isComplete THEN "complete" ELSE "asking",
                         vacancy |-> analysed.updatedVacancy,
                         odd |-> ~coop.odd]
    /\ UNCHANGED <<handled, collectorVars, sessions, clock, turns, faults, response, lastTurn,
                   builderVars, jobReply, race, ring>>

CoopNext == CoopStart \/ CoopTurn

\* The user goes on answering and the server serves every request.
SpecCooperative == Init /\ [][CoopNext]_vars /\ WF_vars(CoopNext)

(***************************************************************************)
(* app.post('/api/recruiter/chat') of the ProgressiveJobCollector server.  *)
(***************************************************************************)
MaxServed == 3

\* What the client may send as sessionId: nothing, an id that names no row,
\* the id of the last response, the id of any row.
ClientIds == {NoSessionId, UnknownSessionId, collectorResponse.sessionId} \cup DOMAIN rows

\* The catch block of the handler: the rows are left as the try block left
\* them, and the response carries the client's id, or a new uuid when the
\* request had none.
CollectorFails(turn, table, drawn, error) ==
    /\ rows' = table
    /\ uuids' = IF turn.clientId = NoSessionId THEN drawn + 1 ELSE drawn
    /\ collectorResponse' =
          CollectorReply(CollectorText("demo", NoField),
                         IF turn.clientId = NoSessionId THEN drawn + 1 ELSE turn.clientId,
                         FALSE, Undef, Undef)
    /\ collectorTurn' = [turn EXCEPT !.kind = "error", !.error = error]

CollectorTurn(clientId, answer, phrasing) ==
    LET found == clientId # NoSessionId /\ clientId \in DOMAIN rows
        newSessionId == uuids + 1
        session == IF found THEN rows[clientId] ELSE NewRow(newSessionId)
        inserted == IF found THEN rows ELSE (newSessionId :> session) @@ rows
        drawn == IF found THEN uuids ELSE newSessionId
        extractedFields == extractAllFieldsInfo(answer)
        turn == [NoCollectorTurn EXCEPT !.kind = "chat", !.clientId = clientId,
                                        !.worked = session.id, !.created = ~found,
                                        !.answer = answer, !.before = rows]
    IN  IF ObjectEntriesThrows(extractedFields)
        THEN CollectorFails(turn, inserted, drawn, "TypeError")
        ELSE LET jobFields == MergeFields(session.requirements, extractedFields.json)
                 aiResponse == generateNextResponse(jobFields, CurrentFieldIndex(jobFields),
                                                    phrasing)
                 merged == [turn EXCEPT !.merged = jobFields]
             IN  IF NextFieldThrows(aiResponse)
                 THEN CollectorFails(merged, inserted, drawn, "ReferenceError")
                 ELSE /\ rows' = [inserted EXCEPT ![session.id] =
                             Row(session.id,
                                 Append(session.conversation_history,
                                        [human |-> UserText, ai |-> aiResponse.message]),
                                 jobFields, NextFieldOf(aiResponse))]
                      /\ uuids' = drawn
                      /\ collectorResponse' =
                            CollectorReply(aiResponse.message, session.id,
                                           aiResponse.isComplete, jobFields,
                                           NextFieldOf(aiResponse))
                      /\ collectorTurn' = merged

CollectorRequest ==
    /\ served < MaxServed
    /\ \E clientId \in ClientIds, answer \in CollectorAnswers, phrasing \in CallOutcomes :
         CollectorTurn(clientId, answer, phrasing)
    /\ served' = served + 1
    /\ UNCHANGED <<handled, coop, sessions, clock, turns, faults, response, lastTurn, builderVars,
                   jobReply, race, ring>>

CollectorNext == CollectorRequest

\* One client and the ProgressiveJobCollector server.
SpecCollector == Init /\ [][CollectorNext]_vars

(***************************************************************************)
(* The control flow of the three chat handlers: the statements of the try  *)
(* block a request runs through, in source order, and the catch block.     *)
(*   "send"       : res.json(...), after which the handler goes on         *)
(*   "sendReturn" : return res.json(...), or res.json(...); return         *)
(*   "throw"      : a statement that throws                                *)
(*   "pass"       : a branch not taken, or a statement that sends nothing  *)
(***************************************************************************)
\* A handler in which no response ends the request.  C38 must tell it from
\* ReturnsAfter.
ReturnsAfterNone(statement) == FALSE

\* Whether the handler is left after the statement.
ReturnsAfter(statement) == statement = "sendReturn"

\* The number of responses sent by running the statements; a throw goes on
\* with the catch block, whose own throw would leave the handler.
RECURSIVE ResponsesSent(_, _)
ResponsesSent(statements, catch) ==
    IF statements = <<>> THEN 0
    ELSE LET statement == Head(statements)
         IN  IF statement = "throw" THEN ResponsesSent(catch, <<>>)
             ELSE IF statement \in {"send", "sendReturn"}
             THEN 1 + (IF ReturnsAfter(statement) THEN 0
                       ELSE ResponsesSent(Tail(statements), catch))
             ELSE ResponsesSent(Tail(statements), catch)

\* The branches of the IntelligentRecruiterChat handler: whether the
\* transcript is empty, whether the request carries a message, which call
\* throws out of its function, whether generateResponse answers isComplete,
\* whether generateJobDescription throws, what the webhook does (its failure
\* is caught inside the completion branch).
RecruiterPaths ==
    [first : BOOLEAN, hasMessage : BOOLEAN, throws : {"none", "analysis", "response"},
     isComplete : BOOLEAN, generationThrows : BOOLEAN, webhook : WebhookOutcomes]

RecruiterStatements(path) ==
    <<IF path.first /\ ~path.hasMessage THEN "sendReturn" ELSE "pass",
      IF path.hasMessage /\ path.throws = "analysis" THEN "throw" ELSE "pass",
      IF path.throws = "response" THEN "throw" ELSE "pass",
      IF path.isComplete /\ ~path.generationThrows THEN "sendReturn" ELSE "pass",
      IF path.isComplete /\ path.generationThrows THEN "sendReturn" ELSE "pass",
      "send">>

\* The branches of the VacancyBuilder handler: whether the request carries a
\* message, whether the extraction asks for a clarification, which call
\* throws.
BuilderPathsTaken ==
    [hasMessage : BOOLEAN, clarification : BOOLEAN,
     throws : {"none", "extraction", "response"}]

BuilderStatements(path) ==
    <<IF path.hasMessage /\ path.throws = "extraction" THEN "throw" ELSE "pass",
      IF path.hasMessage /\ path.clarification THEN "sendReturn" ELSE "pass",
      IF path.throws = "response" THEN "throw" ELSE "pass",
      "send">>

\* The branches of the ProgressiveJobCollector handler: which statement of
\* the try block throws.
CollectorPaths == [throws : {"none", "select", "entries", "currentField"}]

CollectorStatements(path) ==
    <<IF path.throws # "none" THEN "throw" ELSE "pass", "send">>

\* Each handler's catch block sends one response.
CatchBlock == <<"send">>

Handled(server, path, statements) ==
    [server |-> server, path |-> path, sent |-> ResponsesSent(statements, CatchBlock)]

HandleRecruiter ==
    /\ \E path \in RecruiterPaths :
         handled' = Handled("recruiter", path, RecruiterStatements(path))
    /\ UNCHANGED <<coop, collectorVars, sessions, clock, turns, faults, response, lastTurn,
                   builderVars, jobReply, race, ring>>

HandleBuilder ==
    /\ \E path \in BuilderPathsTaken :
         handled' = Handled("builder", path, BuilderStatements(path))
    /\ UNCHANGED <<coop, collectorVars, sessions, clock, turns, faults, response, lastTurn,
                   builderVars, jobReply, race, ring>>

HandleCollector ==
    /\ \E path \in CollectorPaths :
         handled' = Handled("collector", path, CollectorStatements(path))
    /\ UNCHANGED <<coop, collectorVars, sessions, clock, turns, faults, response, lastTurn,
                   builderVars, jobReply, race, ring>>

HandleNext == HandleRecruiter \/ HandleBuilder \/ HandleCollector

\* Requests to the three chat endpoints, one after the other.
SpecHandlers == Init /\ [][HandleNext]_vars

(***************************************************************************)
(* The properties of the specification, stated on the last turn served.    *)
(***************************************************************************)
\* The record of the session the last request of the recruiter worked on.
After == sessions[lastTurn.sid].vacancy

\* The field a skip of the last turn was aimed at: the next missing field of
\* the record as it was before the turn.
SkipTarget == getNextMissingField(lastTurn.before)

\* "Filled" as the specification has it: null, an absent key, the empty
\* array and the empty string are unfilled; 0 and false are filled.
Filled(v) == v \notin {Undef, Null, EmptyArr, EmptyStr}

\* The skip default the specification gives to a field of a declared type.
TypedDefault(type) ==
    CASE type = "boolean" -> "b:false"
      [] type = "array" -> EmptyArr
      [] type = "number" -> Null
      [] OTHER -> EmptyStr

\* C1 (as stated): monotonic fill.  A turn that merges an extraction result
\* without a skip never turns a path that was filled before the turn into an
\* unfilled one.
C1_MonotonicFill ==
    (lastTurn.kind = "chat" /\ lastTurn.how = "merge") =>
        \A p \in Paths : Filled(lastTurn.before[p]) => Filled(After[p])

\* C2: a turn in which the skip detector answers skip sets exactly the skip
\* target (a member of salaryExpectations included) to the skip default,
\* leaves every other path of the record as it was, and does not call the
\* extraction.
C2_SkipFrame ==
    lastTurn.how = "skip" =>
        /\ "extract" \notin lastTurn.calls
        /\ lastTurn.extraction = NotCalled
        /\ \A p \in Paths :
              After[p] = IF p = SkipTarget
                         THEN checkForSkipResponse(lastTurn.before, "skip").value
                         ELSE lastTurn.before[p]

\* C2 (witness): a skip whose target is the nested salaryExpectations.min.
C2_SkipOfNestedField ==
    lastTurn.how = "skip" /\ SkipTarget = "salaryExpectations.min"

\* C3 (as stated): when the extraction result of a VacancyBuilder turn has
\* status CLARIFICATION_NEEDED, the stored record equals the record before
\* the turn, the message is the extraction's commentary and lastQuestionField
\* is unchanged.
C3_ClarificationLeavesRecord ==
    (builderTurn.kind = "chat" /\ builderTurn.status = "CLARIFICATION_NEEDED") =>
        LET stored == builderSessions[builderTurn.before.id]
        IN  /\ stored.vacancy = builderTurn.before.vacancy
            /\ builderResponse.message.kind \in {"commentary", "rephrase"}
            /\ stored.lastQuestionField = builderTurn.before.lastQuestionField

\* C4 (as stated): when the extraction returns text that cannot be parsed,
\* the record is unchanged, the user sees the generic rephrase request and
\* the response has isComplete = false.
C4_UnparsableExtraction ==
    (lastTurn.kind = "chat" /\ lastTurn.extraction = "garbage") =>
        /\ After = lastTurn.before
        /\ response.message.kind = "rephrase"
        /\ ~response.isComplete

\* C5 (as stated): isVacancyComplete holds of a record exactly when every
\* mandatory field is filled, 0 and false counting as filled.
C5_CompleteIffMandatoryFilled ==
    \A sid \in DOMAIN sessions :
        isVacancyComplete(sessions[sid].vacancy)
            <=> \A i \in 1..Len(requiredFields) :
                    Filled(getValueByPath(sessions[sid].vacancy, requiredFields[i]))

\* C6 (as stated): the value a skip writes is the default of the target's
\* declared type: false for a boolean, the empty array for an array, null
\* for a number, the empty string for a string.
C6_SkipDefaultsTyped ==
    (lastTurn.how = "skip" /\ SkipTarget # NoField) =>
        After[SkipTarget] = TypedDefault(vacancyFields[SkipTarget])

\* C7 (as stated): after a skip the target holds its default and the
\* selector advances: the field asked next, if one is asked, is another
\* field, and one that is still unfilled.
C7_SkipAdvances ==
    (lastTurn.how = "skip" /\ SkipTarget # NoField) =>
        /\ After[SkipTarget] = SkipDefault(SkipTarget)
        /\ response.message.field # SkipTarget
        /\ (response.isComplete \/ FieldIsMissing(After, response.message.field))

\* Scenario A: on the empty record, the message "Frontend developer, React,
\* 3 years" whose extraction carries title, coreSkills = ["React"] and
\* overallExperiencesFrom = 3, and nothing else.
ScenarioA ==
    /\ lastTurn.kind = "chat"
    /\ lastTurn.before = getVacancyTemplate
    /\ lastTurn.msg = MsgScenarioA
    /\ lastTurn.how = "merge"
    /\ lastTurn.json = PatchScenarioA

C9_WebhookFailureNonFatal ==
    lastTurn.webhook \in {"notok", "throw"} =>
        /\ response.http = 200
        /\ response.isComplete
        /\ response.webhookSuccess = "b:false"
        /\ response.jobDescription \in {"generated", "fallback"}
        /\ response.message.doc = response.jobDescription
        /\ response.message.note = "notSynced"
        /\ sessions[lastTurn.sid].status = "completed"

\* C9 (witness): a completing turn whose webhook call failed.
C9_WebhookFailed ==
    lastTurn.webhook \in {"notok", "throw"} /\ lastTurn.generation = "ok"

\* C10 (as stated): every completing turn returns a document, the
\* capability's or the static fallback, and never the "generation failed"
\* message.
C10_GenerationAlwaysSucceeds ==
    (lastTurn.kind \in {"chat", "nomsg"} /\ response.isComplete) =>
        /\ response.jobDescription \in {"generated", "fallback"}
        /\ response.message.note # "generationFailed"

\* C11 (as stated): when the call of the question phraser fails in a turn,
\* the failure is caught and the turn ends with a normal response that asks
\* about the selected field; no error response is sent.
C11_PhraserFailureCaught ==
    (builderTurn.kind = "chat" /\ builderTurn.phrasing = "throw") =>
        /\ builderResponse.http = 200
        /\ builderResponse.message.kind = "question"
        /\ builderResponse.message.field = builderTurn.selected

\* C12 (as stated): completed is terminal.  A turn on a session whose status
\* was completed before the turn leaves the status completed.
C12_CompletedIsTerminal ==
    (lastTurn.kind \in {"chat", "nomsg"} /\ lastTurn.beforeStatus = "completed") =>
        sessions[lastTurn.sid].status = "completed"

\* C13 (as stated): a request without a session id, or with one the store
\* does not hold, works on a new session: its id is not the id of a stored
\* session, it starts from the empty template with an empty transcript and
\* status collecting, the response carries its id, and every session stored
\* before the request is unchanged after it.
C13_NewSessionLeavesOthers ==
    [][(turns' = turns + 1 /\ lastTurn'.created) =>
          /\ lastTurn'.sid \notin DOMAIN sessions
          /\ lastTurn'.before = getVacancyTemplate
          /\ lastTurn'.beforeLen = 0
          /\ lastTurn'.beforeStatus = "collecting"
          /\ response'.sessionId = lastTurn'.sid
          /\ \A sid \in DOMAIN sessions : sessions'[sid] = sessions[sid]]_vars

\* C14 (as stated): a request without a message on a fresh session is
\* answered with the static welcome prompt and isComplete = false, without
\* any field processing: no extraction, no selection, and the record stays
\* the empty template.
C14_WelcomeWithoutProcessing ==
    (builderTurn.kind = "chat" /\ ~builderTurn.hasMessage
     /\ builderTurn.before.conversationHistory = <<>>) =>
        /\ builderResponse.http = 200
        /\ builderResponse.message.kind = "welcome"
        /\ ~builderResponse.isComplete
        /\ builderTurn.answer.kind = NotCalled
        /\ builderTurn.selected = NotCalled
        /\ builderSessions[builderTurn.before.id].vacancy = BuilderTemplate
        /\ builderSessions[builderTurn.before.id].lastQuestionField = NoField

\* C15: the generation endpoints answer 400 and do not call the generation
\* capability whenever a mandatory field is missing (from the stored record,
\* or the session is not stored; from the request in server.js), and they
\* generate only when every mandatory field is present.
C15_MissingMandatoryRejected ==
    LET missing ==
            IF jobReply.endpoint = "memory"
            THEN ~jobReply.found
                 \/ \E i \in 1..Len(requiredFields) :
                        ~Filled(getValueByPath(jobReply.record, requiredFields[i]))
            ELSE \E i \in 1..Len(jobReply.request) : ~Filled(jobReply.request[i])
    IN  jobReply.endpoint # "none" =>
            /\ missing => (jobReply.http = 400 /\ ~jobReply.called)
            /\ jobReply.called => ~missing
            /\ jobReply.http = 200 => (jobReply.called /\ jobReply.jobDescription # Undef)

\* C15 (witness): the endpoint has rejected a stored session whose record
\* lacks a mandatory field.
C15_IncompleteRecordRejected ==
    /\ jobReply.endpoint = "memory"
    /\ jobReply.found
    /\ jobReply.http = 400
    /\ Filled(jobReply.record["title"])

\* C16 (as stated): merges never introduce unknown paths.  Every key a
\* stored record holds is a key of the record template.
C16_NoUnknownPaths ==
    \A sid \in DOMAIN sessions :
        \A p \in Paths :
            sessions[sid].vacancy[p] # Undef => getVacancyTemplate[p] # Undef


\* The record a turn in flight stores when its analysis succeeds, worked out
\* from the record it captured when it started.
MergedFromCaptured(r) ==
    LET turn == race.turn[r].turn
    IN  analyzeMessage(turn.msg, turn.before, turn.skipAnswer,
                       Extraction(turn.extraction, turn.json)).updatedVacancy

\* C17: nothing serializes the turns of one session.  The record the session
\* holds is the one the turn whose analysis was stored last worked out from
\* the record it had read at its start, whatever another turn stored in
\* between: a field the other turn filled is lost unless the last writer
\* had already read it.
C17_LastWriterWins ==
    race.stored # <<>> =>
        RaceSession.vacancy = MergedFromCaptured(race.stored[Len(race.stored)])

\* C17 (witness): both turns have finished, the one stored first had filled
\* a path that was unfilled when it started, and the session's record holds
\* that path unfilled.
C17_LostUpdate ==
    /\ \A r \in Racers : race.turn[r].pc = "done"
    /\ Len(race.stored) = 2
    /\ \E p \in Paths :
         /\ ~Filled(race.turn[race.stored[1]].turn.before[p])
         /\ Filled(MergedFromCaptured(race.stored[1])[p])
         /\ ~Filled(RaceSession.vacancy[p])

\* C18: sessions are independent.  A request changes no stored session but
\* the one it works on, and a request that creates a session adds one to the
\* stored sessions: two creating requests, even when served at the same
\* time, leave two sessions with two ids.
C18_SessionsIndependent ==
    [][(turns' = turns + 1) =>
          /\ \A sid \in DOMAIN sessions :
                sid # lastTurn'.sid =>
                    sid \in DOMAIN sessions' /\ sessions'[sid] = sessions[sid]
          /\ lastTurn'.created =>
                Cardinality(DOMAIN sessions') = Cardinality(DOMAIN sessions) + 1]_vars

C20_RingCoverage ==
    (ring.phase = "walking" /\ ring.vacancy = BuilderTemplate
     /\ ring.start \in FieldNames) =>
        LET k == IndexOf(ring.start)
            N == Len(fields)
        IN  /\ \A i \in 1..Len(ring.visited) :
                  ring.visited[i] = fields[((k + i - 1) % N) + 1]
            /\ Len(ring.visited) = N =>
                  /\ {ring.visited[i] : i \in 1..N} = FieldNames
                  /\ \A i, j \in 1..N : ring.visited[i] = ring.visited[j] => i = j

\* C20 (witness): the walk started in the middle of the schema has made its
\* Len(fields) calls, wrapped round the end and come back to its start.
C20_WalkedRoundFromSkills ==
    /\ ring.phase = "walking"
    /\ ring.vacancy = BuilderTemplate
    /\ ring.start = "skills"
    /\ Len(ring.visited) = Len(fields)
    /\ ring.visited[1] = "secondary_skills"
    /\ ring.visited[Len(fields)] = "skills"

\* C21 (as stated): atomic session update.  A chat turn that is answered
\* with an error response leaves the stored session as it was before the
\* turn: record, transcript and lastQuestionField.
C21_ErrorLeavesSession ==
    (builderTurn.kind = "chat" /\ builderResponse.http = 500) =>
        LET stored == builderSessions[builderTurn.before.id]
        IN  /\ stored.vacancy = builderTurn.before.vacancy
            /\ stored.conversationHistory = builderTurn.before.conversationHistory
            /\ stored.lastQuestionField = builderTurn.before.lastQuestionField

\* C22 (as stated): a turn on a collecting session in which the selector
\* returns no field ends with the session in pendingGeneration, not in
\* completed.
C22_NoFieldLeadsToPending ==
    (lastTurn.kind \in {"chat", "nomsg"} /\ lastTurn.beforeStatus = "collecting"
     /\ getNextMissingField(After) = NoField) =>
        /\ sessions[lastTurn.sid].status \in {"pendingGeneration", "pending_generation"}
        /\ sessions[lastTurn.sid].status # "completed"

\* C23 (as stated): a collecting turn in which the selector returns a field
\* is answered with a question for that field and isComplete = false, leaves
\* the session in collecting, and lastQuestionField is the field the
\* response asks about.
C23_SelectedFieldIsAsked ==
    (builderTurn.kind = "chat" /\ builderTurn.selected \in FieldNames) =>
        LET stored == builderSessions[builderTurn.before.id]
        IN  /\ builderResponse.http = 200
            /\ builderResponse.message.kind = "question"
            /\ builderResponse.message.field = builderTurn.selected
            /\ ~builderResponse.isComplete
            /\ stored.status = "collecting"
            /\ stored.lastQuestionField = builderResponse.message.field

C25_SkipDetectorNeedsPendingField ==
    (lastTurn.kind = "chat" /\ "skip" \in lastTurn.calls) =>
        /\ lastTurn.beforeLen > 0
        /\ ~lastTurn.created
        /\ getNextMissingField(lastTurn.before) # NoField

\* C26 (as stated): skipping requires positive classification.  When the
\* call of the skip classifier fails, or its answer is not the skip outcome,
\* the turn does not take the skip branch: no skip default is written and
\* the extraction is called.
C26_SkipNeedsPositiveAnswer ==
    (lastTurn.kind = "chat" /\ lastTurn.skipAnswer \notin {"skip", NotCalled}) =>
        /\ lastTurn.how # "skip"
        /\ "extract" \in lastTurn.calls

\* C27 (as stated): heuristic auto-fill never overrides a value already
\* present.  After a merging turn, every path that was filled before the turn
\* (0 and a chosen location type included) and for which the extraction
\* returned no value (for a member of salaryExpectations: no
\* salaryExpectations at all) holds the value it held before, whatever the
\* message contains.
C27_AutoFillKeepsPresentValue ==
    (lastTurn.kind = "chat" /\ lastTurn.how = "merge") =>
        \A p \in Paths \ {SalaryKey} :
            LET key == IF p \in SalaryMembers THEN SalaryKey ELSE p
            IN  (Filled(lastTurn.before[p]) /\ lastTurn.json[key] \in {Undef, Null}) =>
                    After[p] = lastTurn.before[p]

\* C28 (as stated): heuristic auto-fill never overrides a value the
\* extraction returned in the same turn.  After a merging turn, each of the
\* fields auto-fill may write holds the extracted value whenever the
\* extraction result carried a non-null one.
C28_AutoFillKeepsExtractedValue ==
    (lastTurn.kind = "chat" /\ lastTurn.how = "merge") =>
        /\ \A p \in {"department", "locationType", "employmentType",
                     "overallExperiencesFrom", "coreSkills"} :
              lastTurn.json[p] \notin {Undef, Null} => After[p] = lastTurn.json[p]
        /\ lastTurn.json[SalaryKey] = Obj =>
              \A p \in SalaryMembers : After[p] = lastTurn.json[p]

C30_EarlyGenerationNeedsYes ==
    (lastTurn.kind = "chat" /\ getNextMissingField(After) # NoField) =>
        /\ response.isComplete =>
              isVacancyComplete(After) /\ lastTurn.intentAnswer = "yes"
        /\ lastTurn.intentAnswer \notin {"yes", NotCalled} =>
              /\ ~response.isComplete
              /\ response.message.kind \in {"question", "fallbackQuestion"}
              /\ response.message.field = getNextMissingField(After)

\* C31 (as stated): whenever a chat turn of the recruiter reports
\* isComplete = true, the mandatory fields of the session's record are
\* complete by isVacancyComplete.
C31_CompleteImpliesMandatory ==
    (lastTurn.kind \in {"chat", "nomsg"} /\ response.isComplete) =>
        isVacancyComplete(After)

\* C32 (as stated): the record of a session is posted to the webhook in at
\* most one turn.  Every turn that calls sendToWebhook appends the final
\* message with the sync note to the transcript, so a transcript holds at
\* most one such entry.
C32_WebhookAtMostOnce ==
    \A sid \in DOMAIN sessions :
        LET history == sessions[sid].conversationHistory
        IN  Cardinality({i \in 1..Len(history) :
                            history[i].content.note \in {"synced", "notSynced"}}) <= 1

\* C33 (as stated): collection terminates for a cooperative user.  When in
\* every turn the pending field is either filled by the extraction or
\* classified as skipped, the session reaches a turn with isComplete = true
\* after finitely many turns.
C33_CooperativeCompletes == <>(coop.phase = "complete")

\* C34 (as stated): in the ring-search collector, findNextFieldToFill returns
\* null only if every field of the schema holds a filled value in the session
\* record; a field absent from the record is never counted as filled.
C34_NullMeansEveryFieldFilled ==
    (builderTurn.kind = "chat" /\ builderTurn.selected = NoField) =>
        \A i \in 1..Len(fields) :
            Filled(builderSessions[builderTurn.before.id].vacancy[fields[i]])

\* C35 (as stated): in the SQLite-backed chat handler, a turn after whose
\* merge all six fields are collected answers with isComplete = true and
\* nextField = 'completed', and stores current_field = 'completed' together
\* with the merged fields in the session row.
C35_AllCollectedCompletes ==
    (collectorTurn.kind # "none" /\ collectorTurn.error # "TypeError"
     /\ \A f \in CollectorNames : IsCollected(collectorTurn.merged[f])) =>
        /\ collectorResponse.isComplete
        /\ collectorResponse.nextField = "completed"
        /\ rows[collectorTurn.worked].current_field = "completed"
        /\ rows[collectorTurn.worked].requirements = collectorTurn.merged

\* C36 (as stated): the sessionId carried by every chat response of the
\* SQLite-backed handler, the fallback response of a failed turn included,
\* identifies a session that exists in the session store.
C36_ResponseIdIsStored ==
    collectorTurn.kind # "none" => collectorResponse.sessionId \in DOMAIN rows

\* C37 (as stated): every chat turn that carries a message and ends with a
\* normal response appends to the session transcript exactly one user entry
\* followed by exactly one assistant entry whose text is the message returned
\* in the response, and appends nothing else.
C37_TurnAppendsExchange ==
    (lastTurn.kind = "chat" /\ response.http = 200) =>
        LET history == sessions[lastTurn.sid].conversationHistory
        IN  /\ Len(history) = lastTurn.beforeLen + 2
            /\ history[Len(history) - 1] = Entry("user", UserText)
            /\ history[Len(history)] = Entry("assistant", response.message)

\* C38: every chat request sends exactly one response on every path
\* (welcome, clarification, question, completion with or without webhook
\* failure, generation failure, internal error): never zero and never two.
C38_ExactlyOneResponse == handled.server # "none" => handled.sent = 1

\* C38 (witness): requests that took the paths through a second response
\* site: a completion whose generation throws, and a clarification.
C38_PathPastAnotherSend ==
    \/ /\ handled.server = "recruiter"
       /\ handled.path.hasMessage /\ handled.path.throws = "none"
       /\ handled.path.isComplete /\ handled.path.generationThrows
    \/ /\ handled.server = "builder"
       /\ handled.path.hasMessage /\ handled.path.throws = "none"
       /\ handled.path.clarification

====
